---- MODULE Spec2Model ----
(***************************************************************************)
(* Model of the dcgm-exporter metrics pipeline:                            *)
(*   - MetricsPipeline.Run  (scheduler loop: ticker, stop, output channel) *)
(*   - MetricsPipeline.run  (one collect/transform/accumulate/render pass) *)
(*   - Metric.metricFingerprint                                            *)
(*   - OtelObserve*Metrics / OtelObserve (the meter emitter)               *)
(* Strings are TLA+ strings; a Metric's Value is kept as a sequence of     *)
(* characters so that strconv.ParseFloat / strconv.FormatFloat are real    *)
(* conversions.  Only integer-valued samples are modelled.                 *)
(***************************************************************************)
EXTENDS Integers, Sequences, FiniteSets, TLC

(***************************************************************************)
(* Bounds of the model.                                                    *)
(***************************************************************************)
MaxCap == 1    \* largest capacity of the `out` channel explored
MaxCycles == 2    \* cycles (calls of run) per behaviour
MaxFires == 3    \* timer events per behaviour
MaxEvents == 3    \* calls made on the PodWatcher per behaviour

(***************************************************************************)
(* Generic helpers.                                                        *)
(***************************************************************************)
Range(s) == { s[i] : i \in DOMAIN s }

\* All enumerations (orders without repetition) of a finite set: the orders
\* in which Go may iterate over a map with that key set.
Orders(S) == { s \in [1..Cardinality(S) -> S] : Range(s) = S }

Min(a, b) == IF a < b THEN a ELSE b

RECURSIVE Concat(_)
\* strings.Builder / template output: concatenation of a sequence of strings
Concat(ss) == IF ss = << >> THEN "" ELSE Head(ss) \o Concat(Tail(ss))

(***************************************************************************)
(* strconv.ParseFloat and strconv.FormatFloat on integer-valued samples.   *)
(***************************************************************************)
Digits == << "0", "1", "2", "3", "4", "5", "6", "7", "8", "9" >>

IsDigit(c) == \E d \in 1..10 : Digits[d] = c

DigitVal(c) == (CHOOSE d \in 1..10 : Digits[d] = c) - 1

\* the text of a Value without its sign
Unsigned(v) == IF v # << >> /\ Head(v) = "-" THEN Tail(v) ELSE v

\* the parse error of strconv.ParseFloat(metricVal.Value, 64)
ParseErr(v) ==
    Unsigned(v) = << >> \/ \E i \in DOMAIN Unsigned(v) : ~IsDigit(Unsigned(v)[i])

RECURSIVE ParseDigits(_, _)
ParseDigits(v, acc) ==
    IF v = << >> THEN acc ELSE ParseDigits(Tail(v), 10 * acc + DigitVal(Head(v)))

\* the value of strconv.ParseFloat(metricVal.Value, 64) when it parses
ParseFloat(v) ==
    IF Head(v) = "-" THEN 0 - ParseDigits(Tail(v), 0) ELSE ParseDigits(v, 0)

RECURSIVE FormatFloat(_)
\* strconv.FormatFloat(x, 'f', -1, 64) for an integral x
FormatFloat(n) ==
    IF n < 0 THEN << "-" >> \o FormatFloat(0 - n)
    ELSE IF n < 10 THEN << Digits[n + 1] >>
    ELSE Append(FormatFloat(n \div 10), Digits[(n % 10) + 1])

\* a Value as the text the templates print
ValueText(v) == Concat(v)


(***************************************************************************)
(* Data model: Counter, Metric, MetricsByCounter (types.go).               *)
(***************************************************************************)
\* Every string the code compares with sort.Strings or the template's sorted
\* map traversal, listed in lexicographic (byte) order.
StringOrder ==
    << "ECC", "ECC_COUNTER", "UTIL", "UTIL_COUNTER",
       "cluster", "hpc_job", "pod", "zone" >>

StrRank(s) == CHOOSE i \in 1..Len(StringOrder) : StringOrder[i] = s

StrLess(a, b) == StrRank(a) < StrRank(b)

\* type Counter struct { FieldID; FieldName; PromType; Help }
Counter(id, name, promType, help) ==
    [FieldID |-> id, FieldName |-> name, PromType |-> promType, Help |-> help]

\* the configured counter list (m.counters)
UTIL == Counter(203, "UTIL", "gauge", "GPU utilization")

\* var promMetricType (types.go:173-179): the PromTypes a Counter can carry
promMetricType == {"gauge", "counter", "histogram", "summary", "label"}

\* a second configured counter, of PromType pt
KindCounter(pt) == Counter(310, "ECC", pt, "ECC errors")

\* an empty Go map[string]string
EmptyMap == [k \in {} |-> ""]

\* type Metric struct { Counter; Value; GPU ... Labels; Attributes }
Metric(counter, value, gpu, labels, attrs) ==
    [Counter |-> counter, Value |-> value,
     GPU |-> gpu, GPUUUID |-> "GPU-" \o gpu, GPUDevice |-> "nvidia" \o gpu,
     GPUModelName |-> "A100", GPUPCIBusID |-> "00:0" \o gpu,
     UUID |-> "UUID", MigProfile |-> "", GPUInstanceID |-> "", Hostname |-> "h",
     Labels |-> labels, Attributes |-> attrs]

\* an empty MetricsByCounter
NoMetrics == [c \in {} |-> << >>]

(***************************************************************************)
(* Metric.metricFingerprint (types.go:127-157).  lorder and aorder are the *)
(* orders in which the two `for k := range` loops visit the map keys.      *)
(***************************************************************************)
\* sort.Strings(keys)
SortStrings(keys) ==
    CHOOSE s \in Orders(Range(keys)) :
        \A i, j \in DOMAIN s : i < j => StrLess(s[i], s[j])

\* the loop `for _, k := range keys { fmt.Fprintf(&sb, "%s=%s,", k, mp[k]) }`
RECURSIVE WritePairs(_, _)
WritePairs(keys, mp) ==
    IF keys = << >> THEN ""
    ELSE Head(keys) \o "=" \o mp[Head(keys)] \o "," \o WritePairs(Tail(keys), mp)

\* the keys written in iteration order, the sort left out
UnsortedKeys(order) == order

\* lines 140-144 and 148-152: the keys collected from the map, then sorted
FingerprintKeys(order) == SortStrings(order)

metricFingerprint(m, lorder, aorder) ==
    Concat(<< "name=", m.Counter.FieldName, ",",
              "gpu=", m.GPU, ",",
              "gpu_uuid=", m.GPUUUID, ",",
              "gpu_device=", m.GPUDevice, ",",
              "gpu_model_name=", m.GPUModelName, ",",
              "gpu_pci_bus_id=", m.GPUPCIBusID, ",",
              "uuid=", m.UUID, ",",
              "mig_profile=", m.MigProfile, ",",
              "gpu_instance_id=", m.GPUInstanceID, ",",
              "hostname=", m.Hostname, "," >>)
      \o WritePairs(FingerprintKeys(lorder), m.Labels)
      \o WritePairs(FingerprintKeys(aorder), m.Attributes)

\* the fingerprint as run() obtains it: whatever order the maps are iterated
\* in (the result is a set so that an order-dependent result is visible)
Fingerprints(m) ==
    { metricFingerprint(m, lo, ao) :
        lo \in Orders(DOMAIN m.Labels), ao \in Orders(DOMAIN m.Attributes) }

(***************************************************************************)
(* Renderer: the five templates and FormatMetrics (release.yml:643-726).   *)
(* text/template visits a map in sorted key order; a Counter key is        *)
(* ordered field by field (FieldID, then FieldName).                       *)
(***************************************************************************)
Groups == << "gpu", "switch", "link", "cpu", "core" >>

CounterLess(a, b) ==
    \/ a.FieldID < b.FieldID
    \/ a.FieldID = b.FieldID /\ StrLess(a.FieldName, b.FieldName)

\* the order in which `range $counter, $metrics := .` visits the grouping
SortedCounters(grouping) ==
    CHOOSE s \in Orders(DOMAIN grouping) :
        \A i, j \in DOMAIN s : i < j => CounterLess(s[i], s[j])

\* `range $k, $v := $metric.Labels` :  ,k="v"  per key, in sorted key order
RECURSIVE LabelText(_, _)
LabelText(keys, mp) ==
    IF keys = << >> THEN ""
    ELSE "," \o Head(keys) \o "=\"" \o mp[Head(keys)] \o "\""
             \o LabelText(Tail(keys), mp)

MapText(mp) == LabelText(SortStrings(CHOOSE s \in Orders(DOMAIN mp) : TRUE), mp)

OptHostname(m) ==
    IF m.Hostname # "" THEN ",Hostname=\"" \o m.Hostname \o "\"" ELSE ""

\* the fixed positional labels of one sample line, per entity group
FixedLabels(g, m) ==
    CASE g = "gpu" ->
           "gpu=\"" \o m.GPU \o "\"," \o m.UUID \o "=\"" \o m.GPUUUID
             \o "\",pci_bus_id=\"" \o m.GPUPCIBusID
             \o "\",device=\"" \o m.GPUDevice
             \o "\",modelName=\"" \o m.GPUModelName \o "\""
             \o (IF m.MigProfile # ""
                 THEN ",GPU_I_PROFILE=\"" \o m.MigProfile
                        \o "\",GPU_I_ID=\"" \o m.GPUInstanceID \o "\""
                 ELSE "")
      [] g = "switch" -> "nvswitch=\"" \o m.GPU \o "\""
      [] g = "link" ->
           "nvlink=\"" \o m.GPU \o "\",nvswitch=\"" \o m.GPUDevice \o "\""
      [] g = "cpu" -> "cpu=\"" \o m.GPU \o "\""
      [] g = "core" ->
           "cpucore=\"" \o m.GPU \o "\",cpu=\"" \o m.GPUDevice \o "\""

\* one sample line (preceded by the newline the template emits before it)
SampleLine(g, counter, m) ==
    "\n" \o counter.FieldName \o "{" \o FixedLabels(g, m) \o OptHostname(m)
         \o MapText(m.Labels)
         \o (IF g = "gpu" THEN MapText(m.Attributes) ELSE "")
         \o "} " \o ValueText(m.Value)

RECURSIVE SampleLines(_, _, _)
SampleLines(g, counter, ms) ==
    IF ms = << >> THEN ""
    ELSE SampleLine(g, counter, Head(ms)) \o SampleLines(g, counter, Tail(ms))

\* a Counter without samples is left out
NonEmptyBlock(g, counter, ms) ==
    IF ms = << >> THEN ""
    ELSE "# HELP " \o counter.FieldName \o " " \o counter.Help
           \o "\n# TYPE " \o counter.FieldName \o " " \o counter.PromType
           \o SampleLines(g, counter, ms) \o "\n"

\* the HELP/TYPE pair of a Counter followed by its sample lines
CounterBlock(g, counter, ms) ==
    "# HELP " \o counter.FieldName \o " " \o counter.Help
      \o "\n# TYPE " \o counter.FieldName \o " " \o counter.PromType
      \o SampleLines(g, counter, ms) \o "\n"

RECURSIVE TemplateText(_, _, _)
TemplateText(g, counters, grouping) ==
    IF counters = << >> THEN ""
    ELSE CounterBlock(g, Head(counters), grouping[Head(counters)])
           \o TemplateText(g, Tail(counters), grouping)

\* FormatMetrics returning the partly written buffer with the error
FormatMetricsPartial(g, grouping, execOk) ==
    [text |-> TemplateText(g, SortedCounters(grouping), grouping),
     err |-> ~execOk]

\* FormatMetrics(t, groupedMetrics): execOk is whether t.Execute succeeds.
\* The result is <<text, err>>; on error the buffer is discarded.
FormatMetrics(g, grouping, execOk) ==
    IF execOk
    THEN [text |-> TemplateText(g, SortedCounters(grouping), grouping),
          err |-> FALSE]
    ELSE [text |-> "", err |-> TRUE]

(***************************************************************************)
(* State.                                                                  *)
(***************************************************************************)
VARIABLES
    constructor,      \* the constructor that built the pipeline
    collectors,       \* groups whose collector field of the pipeline is non-nil
    devices,          \* number of GPUs the GPU collector watches (its SysInfo)
    gpuValues,        \* the sample values the GPUs of this host report
    transformations,  \* m.transformations, the configured Transform stages
    counters,         \* m.counters, the configured counters
    otel,             \* m.config.OtelMeter != nil
    otelMeters,       \* m.otelMeters, the instruments registered at construction
    capOut,           \* cap(out)
    out,              \* the values buffered in the channel `out`
    stopped,          \* a value (or close) is pending on the channel `stop`
    tC,               \* number of ticks buffered in the ticker channel t.C
    pc,               \* position of the goroutine executing Run / run
    ti,               \* run: index of the next transform stage to call
    metrics,          \* run: the local `metrics` (GPU grouping being processed)
    formatted,        \* run: the local `formatted`
    o,                \* the string returned by the last call of run
    err,              \* whether the last call of run returned an error
    gpuCounters,      \* m.gpuCounters: fingerprint -> accumulated sum
    emitted,          \* the instrument calls made in the current cycle, in order
    extended,         \* run: the augmented GPU grouping of the current cycle
    \* ---- history (observation only; never read by the program) ----
    cycle,            \* number of calls of run so far
    log,              \* the steps of the current call of run, in order
    fires,            \* number of timer events so far
    firedDuring,      \* a timer event elapsed while the last cycle ran
    firedIdle,        \* a timer event elapsed since the last cycle completed
    startInfo,        \* firedDuring / firedIdle as they were when the cycle began
    sends,            \* values sent on `out` for the current cycle, in order
    dropped,          \* cycles whose text was dropped because `out` was full
    stoppedMid,       \* `stop` was signalled while a cycle was in progress
    reported,         \* fingerprint -> Values the GPU collector reported for it,
                      \*   one per cycle whose GPU collection succeeded
    accumulated,      \* fingerprint -> Values added by the accumulator
    accBefore,        \* m.gpuCounters as it was when the current cycle began
    \* ---- metricFingerprint called on its own ----
    fpA, fpB,         \* two Metrics
    fpOut,            \* their fingerprints, once computed
    \* ---- PodWatcher (release.yml:744-814) ----
    pwM,              \* pw.m: namespace/name -> ObjectMeta
    pwMu,             \* pw.mu: the goroutine holding the mutex, or NoHolder
    pwT,              \* the goroutines calling the PodWatcher: position, call
    pwHist,           \* history of the calls (observation only)
    \* ---- a call of NewMetricsPipeline (release.yml:133-254) ----
    nmp               \* position, locals and result of the call

config == << constructor, collectors, devices, gpuValues, transformations, counters, otel,
            otelMeters, capOut >>
runLocals == << ti, metrics, formatted, extended >>
result == << o, err >>
timer == << tC, fires, firedDuring, firedIdle >>
fpState == << fpA, fpB, fpOut >>
pwState == << pwM, pwMu, pwT, pwHist >>
vars == << constructor, collectors, devices, gpuValues, transformations, counters, otel,
           otelMeters,
           capOut, out, stopped, tC, pc, ti,
           metrics, formatted, o, err, gpuCounters, emitted, extended, cycle, log,
           fires, firedDuring, firedIdle, startInfo, sends, dropped,
           stoppedMid, reported, accumulated, accBefore, fpA, fpB, fpOut,
           pwM, pwMu, pwT, pwHist, nmp >>

(***************************************************************************)
(* Inputs: what the external collaborators may return.                     *)
(***************************************************************************)
V42 == << "4", "2" >>
V7 == << "7" >>
VBad == << "N", "/", "A" >>
VNeg == << "-", "5" >>

\* static, user-configured labels carried by every GPU metric
StaticLabels == [k \in {"cluster", "zone"} |-> IF k = "cluster" THEN "c1" ELSE "z1"]

GpuMetricOf(c, v, gpu) == Metric(c, v, gpu, StaticLabels, EmptyMap)

GpuMetric(v, gpu) == GpuMetricOf(UTIL, v, gpu)

\* the sample values a GPU may report (gpuValues is a subset)
GpuValues == {V42, V7, VNeg, VBad}

\* groupings the GPU collector's GetMetrics may return when it watches n
\* GPUs: one metric per GPU under every configured counter
GpuGroupings(n) ==
    { [c \in Range(counters) |->
          [i \in 1..n |-> GpuMetricOf(c, vs[c][i], Digits[i])]] :
        vs \in [Range(counters) -> [1..n -> gpuValues]] }

\* the counter the other entity groups report
AUX == Counter(100, "UTIL", "gauge", "aux")

\* groupings a switch / link / CPU / CPU-core collector may return
AuxGroupings(g) ==
    { NoMetrics,
      [c \in {AUX} |-> << Metric(AUX, V7, "0", EmptyMap, EmptyMap) >>] }

(***************************************************************************)
(* Transform stages (interface Transform, types.go:54-57; list built by    *)
(* getTransformations, release.yml:256-273).                               *)
(***************************************************************************)
\* getTransformations(c): the pod mapper (when c.Kubernetes and it could be
\* created) before the HPC mapper (when c.HPCJobMappingDir is set)
getTransformations(kubernetes, hpc) ==
    (IF kubernetes THEN << "podMapper" >> ELSE << >>)
      \o (IF hpc THEN << "hpcMapper" >> ELSE << >>)

TransformOutcomes == {"error", "mapped", "unmapped"}

TransformAttr(name) == IF name = "podMapper" THEN "pod" ELSE "hpc_job"

\* Process(metrics, sysInfo) of stage `name` when it does not fail: it adds
\* an attribute to the metrics of the device it maps (GPU 0), or to none
Process(name, grouping, outcome) ==
    [c \in DOMAIN grouping |->
        [i \in DOMAIN grouping[c] |->
            LET m == grouping[c][i]
                k == TransformAttr(name)
            IN  IF outcome = "mapped" /\ m.GPU = "0"
                THEN [m EXCEPT !.Attributes =
                        [x \in DOMAIN m.Attributes \cup {k} |->
                            IF x = k THEN "w1" ELSE m.Attributes[x]]]
                ELSE m]]

(***************************************************************************)
(* Counter Accumulator (release.yml:348-368).                              *)
(***************************************************************************)
\* m.gpuCounters[fp], the zero value for an absent key
GetSum(acc, fp) == IF fp \in DOMAIN acc THEN acc[fp] ELSE 0

\* the map rebuilt with the written key alone
ResetSum(acc, fp, x) == [f \in {fp} |-> x]

\* m.gpuCounters[fp] = x
PutSum(acc, fp, x) ==
    [f \in DOMAIN acc \cup {fp} |-> IF f = fp THEN x ELSE acc[f]]

\* the derived entry stored under the key of the original one
SameCounter(counter) == counter

\* newCounter := counter; FieldName += "_COUNTER"; PromType = "counter"
DerivedCounter(counter) ==
    [counter EXCEPT !.FieldName = counter.FieldName \o "_COUNTER",
                    !.PromType = "counter"]

\* the metrics held in a grouping
AllMetrics(grouping) ==
    UNION { Range(grouping[c]) : c \in DOMAIN grouping }

\* one fingerprint per metric, each as some iteration order produces it
FingerprintChoices(grouping) ==
    { f \in [AllMetrics(grouping) ->
               UNION { Fingerprints(m) : m \in AllMetrics(grouping) }] :
        \A m \in AllMetrics(grouping) : f[m] \in Fingerprints(m) }

\* the entry overwritten by the sample instead of increased by it
OverwriteSample(sum, val) == val

\* line 361: m.gpuCounters[fp] += val
AddSample(sum, val) == sum + val

\* the loop left at the first unparsable Value
BreakLoop(rest) == << >>

\* line 359: continue, the loop goes on with the remaining metricVals
ContinueLoop(rest) == rest

RECURSIVE AccumulateList(_, _, _, _)
\* the inner loop `for _, metricVal := range metricVals`:
\* [acc: the accumulator afterwards, out: newMetrics]
AccumulateList(ms, newCounter, acc, fpf) ==
    IF ms = << >> THEN [acc |-> acc, out |-> << >>]
    ELSE LET m == Head(ms)
             fp == fpf[m]
         IN  IF ParseErr(m.Value)
             THEN AccumulateList(ContinueLoop(Tail(ms)), newCounter, acc, fpf)
             ELSE LET sum == AddSample(GetSum(acc, fp), ParseFloat(m.Value))
                      rest == AccumulateList(Tail(ms), newCounter,
                                             PutSum(acc, fp, sum), fpf)
                      d == [m EXCEPT !.Counter = newCounter,
                                     !.Value = FormatFloat(sum)]
                  IN  [acc |-> rest.acc, out |-> << d >> \o rest.out]

\* extended[newCounter] = newMetrics
PutEntry(grouping, c, ms) ==
    [x \in DOMAIN grouping \cup {c} |-> IF x = c THEN ms ELSE grouping[x]]

RECURSIVE AccumulateCounters(_, _, _, _, _)
\* the outer loop `for counter, metricVals := range metrics`, visiting the
\* counters in the order `order`: [acc, ext]
AccumulateCounters(order, grouping, ext, acc, fpf) ==
    IF order = << >> THEN [acc |-> acc, ext |-> ext]
    ELSE LET c == Head(order)
             r == AccumulateList(grouping[c], DerivedCounter(c), acc, fpf)
         IN  AccumulateCounters(Tail(order), grouping,
                                PutEntry(ext, DerivedCounter(c), r.out),
                                r.acc, fpf)

(***************************************************************************)
(* Meter Emitter: OtelObserve*Metrics and OtelObserve (release.yml:463-630)*)
(* and the registration of the instruments (release.yml:201-229).          *)
(***************************************************************************)
\* strings.ToLower on the strings that hold an upper-case letter
LowerTable ==
    << << "UTIL", "util" >>, << "UTIL_COUNTER", "util_counter" >>,
       << "ECC", "ecc" >>, << "ECC_COUNTER", "ecc_counter" >>,
       << "UUID", "uuid" >>, << "modelName", "modelname" >>,
       << "Hostname", "hostname" >>, << "GPU_I_PROFILE", "gpu_i_profile" >>,
       << "GPU_I_ID", "gpu_i_id" >> >>

ToLower(str) ==
    IF \E i \in DOMAIN LowerTable : LowerTable[i][1] = str
    THEN LowerTable[CHOOSE i \in DOMAIN LowerTable : LowerTable[i][1] = str][2]
    ELSE str

\* m.otelMeters of a pipeline built without a meter (a nil pointer)
NilOtelMeters == [nil |-> TRUE, Gauge |-> {}, Counter |-> {}, Histogram |-> {}]

\* lines 203-229: one instrument per configured counter of PromType gauge,
\* counter or histogram, under the lower-cased field name
NewOtelMeters(cs) ==
    [nil |-> FALSE,
     Gauge |-> { ToLower(c.FieldName) :
                   c \in { x \in Range(cs) : x.PromType = "gauge" } },
     Counter |-> { ToLower(c.FieldName) :
                     c \in { x \in Range(cs) : x.PromType = "counter" } },
     Histogram |-> { ToLower(c.FieldName) :
                       c \in { x \in Range(cs) : x.PromType = "histogram" } }]

\* attribute.String(k, v)
KV(k, v) == [Key |-> k, Value |-> v]

RECURSIVE MapAttrs(_, _)
\* `for k, v := range mp { attrs = append(attrs, attribute.String(k, v)) }`
\* visiting the keys in the order `keys`
MapAttrs(keys, mp) ==
    IF keys = << >> THEN << >>
    ELSE << KV(Head(keys), mp[Head(keys)]) >> \o MapAttrs(Tail(keys), mp)

\* what one iteration of the metricVal loop appends to attrs, per entity group
OwnAttrs(g, m, lorder, aorder) ==
    (CASE g = "gpu" ->
            << KV("gpu", m.GPU), KV(m.UUID, m.GPUUUID),
               KV("pci_bus_id", m.GPUPCIBusID), KV("device", m.GPUDevice),
               KV("modelName", m.GPUModelName) >>
              \o (IF m.MigProfile # ""
                  THEN << KV("GPU_I_PROFILE", m.MigProfile),
                          KV("GPU_I_ID", m.GPUInstanceID) >>
                  ELSE << >>)
       [] g = "switch" -> << KV("nvswitch", m.GPU) >>
       [] g = "link" -> << KV("nvlink", m.GPU), KV("nvswitch", m.GPUDevice) >>
       [] g = "cpu" -> << KV("cpu", m.GPU) >>
       [] g = "core" -> << KV("cpucore", m.GPU), KV("cpu", m.GPUDevice) >>)
      \o (IF m.Hostname # "" THEN << KV("Hostname", m.Hostname) >> ELSE << >>)
      \o MapAttrs(lorder, m.Labels)
      \o MapAttrs(aorder, m.Attributes)

\* lines 593-595: every key of attrs lower-cased, in place
LowerKeys(attrs) ==
    [i \in DOMAIN attrs |-> KV(ToLower(attrs[i].Key), attrs[i].Value)]

\* metric.WithAttributes(attrs...): the attribute set of the slice; of several
\* entries with one key the last one is kept
WithAttributes(attrs) ==
    [k \in { attrs[i].Key : i \in DOMAIN attrs } |->
        attrs[CHOOSE i \in DOMAIN attrs :
                 /\ attrs[i].Key = k
                 /\ \A j \in DOMAIN attrs : attrs[j].Key = k => j <= i].Value]

\* the lookup `m.otelMeters.<Kind>[fieldName]`
HasInstrument(meters, promType, fieldName) ==
    CASE promType = "counter" -> fieldName \in meters.Counter
      [] promType = "gauge" -> fieldName \in meters.Gauge
      [] promType = "histogram" -> fieldName \in meters.Histogram
      [] OTHER -> FALSE

\* the cases of `switch counter.PromType` in OtelObserve (there is no default)
ObservedKinds == {"counter", "gauge", "histogram"}

\* an unparsable Value passed over by the emitter
EmitParseSkip == "skipped"

\* lines 603-606, 613-616, 623-626: ParseFloat failed in OtelObserve
EmitParseFailure == "panic"

\* OtelObserve(ctx, counter, metricVal, attrs...): the outcome and, when an
\* instrument is called, the call (with, for observation, the Metric and the
\* entity group it was made for)
OtelObserve(g, counter, m, attrs, meters) ==
    LET fieldName == ToLower(counter.FieldName)
    IN  IF counter.PromType \notin ObservedKinds
        THEN [outcome |-> "skipped"]
        ELSE IF meters.nil \/ ~HasInstrument(meters, counter.PromType, fieldName)
        THEN [outcome |-> "panic"]
        ELSE IF ParseErr(m.Value)
        THEN [outcome |-> EmitParseFailure]
        ELSE [outcome |-> "emitted",
              call |-> [kind |-> counter.PromType, name |-> fieldName,
                        value |-> ParseFloat(m.Value),
                        attrs |-> WithAttributes(LowerKeys(attrs)),
                        of |-> m, g |-> g]]

\* the orders in which the Labels and the Attributes of a Metric are iterated
IterOrders(m) ==
    { [l |-> lo, a |-> ao] :
        lo \in Orders(DOMAIN m.Labels), ao \in Orders(DOMAIN m.Attributes) }

\* one pair of iteration orders for every metric of a grouping
IterChoices(grouping) ==
    { f \in [AllMetrics(grouping) ->
               UNION { IterOrders(m) : m \in AllMetrics(grouping) }] :
        \A m \in AllMetrics(grouping) : f[m] \in IterOrders(m) }

RECURSIVE ObserveList(_, _, _, _, _, _)
\* the loop `for _, metricVal := range metricVals` of OtelObserve*Metrics;
\* attrs is the slice as the previous iterations left it:
\* [panic, calls: the instrument calls made]
ObserveList(g, counter, ms, attrs, meters, pick) ==
    IF ms = << >> THEN [panic |-> FALSE, calls |-> << >>]
    ELSE LET m == Head(ms)
             passed == attrs \o OwnAttrs(g, m, pick[m].l, pick[m].a)
             r == OtelObserve(g, counter, m, passed, meters)
         IN  IF r.outcome = "panic" THEN [panic |-> TRUE, calls |-> << >>]
             ELSE LET rest == ObserveList(g, counter, Tail(ms),
                                          LowerKeys(passed), meters, pick)
                  IN  [panic |-> rest.panic,
                       calls |-> (IF r.outcome = "emitted" THEN << r.call >>
                                  ELSE << >>) \o rest.calls]

RECURSIVE OtelObserveMetrics(_, _, _, _, _)
\* OtelObserveGpuMetrics / ...Switch... / ...Link... / ...Cpu... / ...CpuCore...:
\* the loop `for counter, metricVals := range metrics`, visiting the counters
\* in the order `order`; attrs starts empty for every counter, and
\* metricVals[0] of an empty list is an index out of range
OtelObserveMetrics(g, order, grouping, meters, pick) ==
    IF order = << >> THEN [panic |-> FALSE, calls |-> << >>]
    ELSE LET c == Head(order)
             r == IF grouping[c] = << >> THEN [panic |-> TRUE, calls |-> << >>]
                  ELSE ObserveList(g, c, grouping[c], << >>, meters, pick)
         IN  IF r.panic THEN r
             ELSE LET rest == OtelObserveMetrics(g, Tail(order), grouping,
                                                 meters, pick)
                  IN  [panic |-> rest.panic, calls |-> r.calls \o rest.calls]

\* the emitter not called: m.config.OtelMeter == nil
NoEmission == [panic |-> FALSE, calls |-> << >>]

(***************************************************************************)
(* History helpers (observation only).                                     *)
(***************************************************************************)
Event(ev, g, ok, text) == [ev |-> ev, g |-> g, ok |-> ok, text |-> text]

RECURSIVE FlattenGrouping(_, _)
FlattenGrouping(order, grouping) ==
    IF order = << >> THEN << >>
    ELSE grouping[Head(order)] \o FlattenGrouping(Tail(order), grouping)

\* the metrics of a grouping as one list
MetricList(grouping) == FlattenGrouping(SortedCounters(grouping), grouping)

RECURSIVE Record(_, _, _, _)
\* hist with the Value of every metric of ms that satisfies `keep` appended
\* under the metric's fingerprint
Record(hist, ms, fpf, keepBad) ==
    IF ms = << >> THEN hist
    ELSE LET m == Head(ms)
             fp == fpf[m]
             h == IF fp \in DOMAIN hist THEN hist[fp] ELSE << >>
             hist2 == IF ParseErr(m.Value) /\ ~keepBad THEN hist
                      ELSE [f \in DOMAIN hist \cup {fp} |->
                              IF f = fp THEN Append(h, m.Value) ELSE hist[f]]
         IN  Record(hist2, Tail(ms), fpf, keepBad)

NoHistory == [f \in {} |-> << >>]

(***************************************************************************)
(* MetricsPipeline.run (release.yml:324-461), one action per step.         *)
(***************************************************************************)
\* run returning the text rendered so far together with the error
PartialResult(partial) == partial

\* what run returns as its string when it returns an error
ErrorResult(partial) == ""

\* `return "", fmt.Errorf(...)`
ReturnError ==
    /\ pc' = "returned"
    /\ o' = ErrorResult(formatted)
    /\ err' = TRUE
    /\ ti' = 1
    /\ metrics' = NoMetrics
    /\ formatted' = ""

\* entry of run: fresh locals
EnterRun ==
    /\ cycle < MaxCycles
    /\ cycle' = cycle + 1
    /\ pc' = "gpu"
    /\ ti' = 1
    /\ metrics' = NoMetrics
    /\ formatted' = ""
    /\ extended' = NoMetrics
    /\ o' = ""
    /\ err' = FALSE
    /\ log' = << >>
    /\ sends' = << >>
    /\ emitted' = << >>
    /\ accBefore' = gpuCounters

\* the emitter is passed over when there is no transform
SkipEmit == IF transformations = << >> THEN "accumulate" ELSE "transform"

\* position after the GPU collector returned without error
AfterGpuCollect == IF transformations = << >> THEN "emit" ELSE "transform"

\* lines 330-335: m.gpuCollector.GetMetrics()
RunGpuCollect ==
    /\ pc = "gpu"
    /\ \/ /\ "gpu" \notin collectors
          /\ pc' = "switch"
          /\ UNCHANGED << runLocals, result, log, reported >>
       \/ /\ "gpu" \in collectors
          /\ ReturnError
          /\ log' = Append(log, Event("collect", "gpu", FALSE, ""))
          /\ UNCHANGED << extended, reported >>
       \/ /\ "gpu" \in collectors
          /\ \E grouping \in GpuGroupings(devices) : metrics' = grouping
          /\ pc' = AfterGpuCollect
          /\ log' = Append(log, Event("collect", "gpu", TRUE, ""))
          /\ UNCHANGED << ti, formatted, extended, result, reported >>
    /\ UNCHANGED << config, fpState, pwState, nmp, accBefore, emitted, out, stopped, timer, gpuCounters, cycle,
                    startInfo, sends, dropped, stoppedMid, accumulated >>

\* the stages visited from the last to the first
StageReversed(i) == transformations[Len(transformations) + 1 - i]

\* line 337: the i-th stage visited by `range m.transformations`
StageAt(i) == transformations[i]

\* lines 337-342: one iteration of `for _, transform := range m.transformations`
RunTransform ==
    /\ pc = "transform"
    /\ ti <= Len(transformations)
    /\ \E outcome \in TransformOutcomes :
          /\ log' = Append(log, Event("transform", StageAt(ti),
                                      outcome # "error", ""))
          /\ IF outcome = "error"
             THEN /\ ReturnError
                  /\ \E fpf \in FingerprintChoices(metrics) :
                        reported' =
                           Record(reported, MetricList(metrics), fpf, TRUE)
             ELSE /\ metrics' = Process(StageAt(ti), metrics, outcome)
                  /\ UNCHANGED reported
                  /\ ti' = ti + 1
                  /\ pc' = IF ti = Len(transformations)
                           THEN "emit" ELSE "transform"
                  /\ UNCHANGED << formatted, result >>
    /\ UNCHANGED << config, fpState, pwState, nmp, accBefore, emitted, out, stopped, timer, gpuCounters, extended, cycle,
                    startInfo, sends, dropped, stoppedMid, accumulated >>

\* lines 344-346: if m.config.OtelMeter != nil { m.OtelObserveGpuMetrics(...) }
RunGpuEmit ==
    /\ pc = "emit"
    /\ \E order \in Orders(DOMAIN metrics), pick \in IterChoices(metrics) :
          LET e == IF otel
                   THEN OtelObserveMetrics("gpu", order, metrics, otelMeters, pick)
                   ELSE NoEmission
          IN  /\ emitted' = emitted \o e.calls
              /\ log' = IF otel
                        THEN Append(log, Event("emit", "gpu", ~e.panic, ""))
                        ELSE log
              /\ pc' = IF e.panic THEN "panic" ELSE "accumulate"
    /\ UNCHANGED << config, fpState, pwState, nmp, accBefore, out, stopped, timer, runLocals, result,
                    gpuCounters, cycle, startInfo, sends, dropped, stoppedMid,
                    reported, accumulated >>

\* NewMetricsPipelineWithGPUCollector (lines 276-289) sets neither gpuCounters
\* nor otelMeters, and nothing assigns them later: the map is nil
NilAccumulator == constructor = "NewMetricsPipelineWithGPUCollector"

\* line 361 reached with a nil map: assignment to entry in nil map
NilMapWrite ==
    NilAccumulator /\ \E m \in AllMetrics(metrics) : ~ParseErr(m.Value)

\* lines 348-361 on a nil map: the first value that parses panics
RunGpuAccumulatePanic ==
    /\ pc = "accumulate"
    /\ NilMapWrite
    /\ pc' = "panic"
    /\ log' = Append(log, Event("accumulate", "gpu", FALSE, ""))
    /\ UNCHANGED << config, fpState, pwState, nmp, accBefore, emitted, out,
                    stopped, timer, runLocals, result, gpuCounters, cycle,
                    startInfo, sends, dropped, stoppedMid, reported,
                    accumulated >>

\* lines 348-373 on a map that can be written
RunGpuAccumulateOk ==
    /\ pc = "accumulate"
    /\ ~NilMapWrite
    /\ \E order \in Orders(DOMAIN metrics),
          fpf \in FingerprintChoices(metrics),
          execOk \in BOOLEAN :
          LET r == AccumulateCounters(order, metrics, metrics, gpuCounters, fpf)
              f == FormatMetrics("gpu", r.ext, execOk)
          IN  /\ gpuCounters' = r.acc
              /\ extended' = r.ext
              /\ accumulated' =
                    Record(accumulated, MetricList(metrics), fpf, FALSE)
              /\ reported' = Record(reported, MetricList(metrics), fpf, TRUE)
              /\ log' = log \o << Event("accumulate", "gpu", TRUE, ""),
                                  Event("render", "gpu", ~f.err, f.text) >>
              /\ IF f.err
                 THEN ReturnError
                 ELSE /\ formatted' = f.text
                      /\ pc' = "switch"
                      /\ metrics' = NoMetrics
                      /\ UNCHANGED << ti, result >>
    /\ UNCHANGED << config, fpState, pwState, nmp, accBefore, emitted, out, stopped, timer, cycle, startInfo, sends,
                    dropped, stoppedMid >>

\* lines 348-373: the accumulator extension and the GPU rendering
RunGpuAccumulate ==
    IF NilMapWrite THEN RunGpuAccumulatePanic ELSE RunGpuAccumulateOk

\* the group's text put in front of what was rendered before
PrependText(text, groupText) == groupText \o text

\* line 394: formatted = formatted + switchFormatted  (also 415, 436, 457)
AppendText(text, groupText) == text \o groupText

\* lines 376-395 (switch), 397-416 (link), 418-437 (CPU), 439-458 (CPU core):
\* collect the group, render it when it is not empty, append the text
RunGroup(g, next) ==
    /\ pc = g
    /\ \/ /\ g \notin collectors
          /\ pc' = next
          /\ UNCHANGED << runLocals, result, log, emitted >>
       \/ /\ g \in collectors
          /\ ReturnError
          /\ log' = Append(log, Event("collect", g, FALSE, ""))
          /\ UNCHANGED << extended, emitted >>
       \/ /\ g \in collectors
          /\ \E grouping \in AuxGroupings(g), execOk \in BOOLEAN :
             \E pick \in IterChoices(grouping) :
                LET e == IF otel
                         THEN OtelObserveMetrics(g, SortedCounters(grouping),
                                                 grouping, otelMeters, pick)
                         ELSE NoEmission
                    f == FormatMetrics(g, grouping, execOk)
                    emitLog == IF otel THEN << Event("emit", g, ~e.panic, "") >>
                               ELSE << >>
                IN  /\ emitted' = emitted \o e.calls
                    /\ IF e.panic
                       THEN /\ pc' = "panic"
                            /\ formatted' = formatted
                            /\ log' = log \o << Event("collect", g, TRUE, "") >>
                                          \o emitLog
                       ELSE /\ pc' = next
                            /\ IF grouping = NoMetrics
                               THEN /\ formatted' = formatted
                                    /\ log' = log \o << Event("collect", g, TRUE, "") >>
                                                  \o emitLog
                               ELSE /\ formatted' = AppendText(formatted, f.text)
                                    /\ log' = log \o << Event("collect", g, TRUE, "") >>
                                                  \o emitLog
                                                  \o << Event("render", g, ~f.err, f.text) >>
          /\ UNCHANGED << ti, metrics, extended, result >>
    /\ UNCHANGED << config, fpState, pwState, nmp, accBefore, out, stopped, timer, gpuCounters, cycle,
                    startInfo, sends, dropped, stoppedMid, reported,
                    accumulated >>

RunSwitch == RunGroup("switch", "link")

RunLink == RunGroup("link", "cpu")

RunCpu == RunGroup("cpu", "core")

RunCore == RunGroup("core", "return")

\* line 460: return formatted, nil
RunReturn ==
    /\ pc = "return"
    /\ pc' = "returned"
    /\ o' = formatted
    /\ err' = FALSE
    /\ ti' = 1
    /\ metrics' = NoMetrics
    /\ formatted' = ""
    /\ UNCHANGED << config, fpState, pwState, nmp, accBefore, emitted, out, stopped, timer, gpuCounters, extended, cycle,
                    log, startInfo, sends, dropped, stoppedMid, reported,
                    accumulated >>

\* the steps of run
RunSteps ==
    \/ RunGpuCollect
    \/ RunTransform
    \/ RunGpuEmit
    \/ RunGpuAccumulate
    \/ RunSwitch
    \/ RunLink
    \/ RunCpu
    \/ RunCore
    \/ RunReturn

(***************************************************************************)
(* MetricsPipeline.Run (release.yml:291-322): ticker, stop, output channel.*)
(***************************************************************************)
\* a ticker channel that queues every timer event
TickQueue(n) == n + 1

\* time.NewTicker: the channel t.C buffers one tick; a timer event that finds
\* the buffer occupied is dropped.  n is the number of buffered ticks.
TickBuffer(n) == Min(1, n + 1)

\* a timer event of the ticker (none after the deferred t.Stop())
TimerFire ==
    /\ fires < MaxFires
    /\ pc \notin {"done", "panic"}
    /\ fires' = fires + 1
    /\ tC' = TickBuffer(tC)
    /\ IF pc = "select"
       THEN firedIdle' = TRUE /\ UNCHANGED firedDuring
       ELSE firedDuring' = TRUE /\ UNCHANGED firedIdle
    /\ UNCHANGED << config, fpState, pwState, nmp, accBefore, emitted, out, stopped, pc, runLocals, result, gpuCounters,
                    cycle, log, startInfo, sends, dropped, stoppedMid,
                    reported, accumulated >>

\* the owner of the pipeline signals `stop`
EnvStop ==
    /\ ~stopped
    /\ stopped' = TRUE
    /\ stoppedMid' = (pc # "select")
    /\ UNCHANGED << config, fpState, pwState, nmp, accBefore, emitted, out, timer, pc, runLocals, result, gpuCounters,
                    cycle, log, startInfo, sends, dropped, reported,
                    accumulated >>

\* `stop` polled at every step of a cycle as well
AnyPoint ==
    {"select", "gpu", "transform", "emit", "accumulate", "switch", "link", "cpu",
     "core", "return", "returned", "flush", "check", "sendOk"}

\* the positions of Run at which `stop` is received: the select statement
StopPoints == {"select"}

\* line 304-305: case <-stop: return  (then the deferred wg.Done, t.Stop)
RunStop ==
    /\ pc \in StopPoints
    /\ stopped
    /\ pc' = "done"
    /\ UNCHANGED << config, fpState, pwState, nmp, accBefore, emitted, out, stopped, timer, runLocals, result,
                    gpuCounters, cycle, log, startInfo, sends, dropped,
                    stoppedMid, reported, accumulated >>

\* a tick also received while the result of the last cycle awaits its send
TickBeforeSend == {"select", "returned"}

\* lines 303, 306: a tick is received only by the select statement
TickPoints == {"select"}

\* line 306-307: case <-t.C: o, err := m.run()
RunTick ==
    /\ pc \in TickPoints
    /\ tC > 0
    /\ tC' = tC - 1
    /\ EnterRun
    /\ startInfo' = [overran |-> firedDuring, idle |-> firedIdle]
    /\ firedDuring' = FALSE
    /\ firedIdle' = FALSE
    /\ UNCHANGED << config, fpState, pwState, nmp, out, stopped, fires, gpuCounters, dropped,
                    stoppedMid, reported, accumulated >>

\* line 308: if err != nil
RunHandleResult ==
    /\ pc = "returned"
    /\ pc' = IF err THEN "flush" ELSE "check"
    /\ UNCHANGED << config, fpState, pwState, nmp, accBefore, emitted, out, stopped, timer, runLocals, result,
                    gpuCounters, cycle, log, startInfo, sends, dropped,
                    stoppedMid, reported, accumulated >>

\* a send on `out` can complete without a receiver iff the buffer has room
CanSend == Len(out) < capOut

\* the `continue` left out: Run falls through to the full-channel test
FallThrough == "check"

\* where Run continues after `out <- ""`: line 312, continue
AfterFlush == "select"

\* line 311: out <- ""
RunFlush ==
    /\ pc = "flush"
    /\ CanSend
    /\ out' = Append(out, "")
    /\ sends' = Append(sends, "")
    /\ pc' = AfterFlush
    /\ UNCHANGED << config, fpState, pwState, nmp, accBefore, emitted, stopped, timer, runLocals, result, gpuCounters,
                    cycle, log, startInfo, dropped, stoppedMid, reported,
                    accumulated >>

\* the full-channel test written with > instead of ==
ChanOverfull(buf, cap) == Len(buf) > cap

\* line 315: len(out) == cap(out)
ChanFull(buf, cap) == Len(buf) = cap

\* lines 315-317: the full-channel test; a full channel drops the text
RunCheckFull ==
    /\ pc = "check"
    /\ IF ChanFull(out, capOut)
       THEN pc' = "select" /\ dropped' = dropped + 1
       ELSE pc' = "sendOk" /\ UNCHANGED dropped
    /\ UNCHANGED << config, fpState, pwState, nmp, accBefore, emitted, out, stopped, timer, runLocals, result,
                    gpuCounters, cycle, log, startInfo, sends, stoppedMid,
                    reported, accumulated >>

\* line 318: out <- o
RunSendOk ==
    /\ pc = "sendOk"
    /\ CanSend
    /\ out' = Append(out, o)
    /\ sends' = Append(sends, o)
    /\ pc' = "select"
    /\ UNCHANGED << config, fpState, pwState, nmp, accBefore, emitted, stopped, timer, runLocals, result, gpuCounters,
                    cycle, log, startInfo, dropped, stoppedMid, reported,
                    accumulated >>

\* the consumer receives a buffered value
ConsumerRecv ==
    /\ Len(out) > 0
    /\ out' = Tail(out)
    /\ UNCHANGED << config, fpState, pwState, nmp, accBefore, emitted, stopped, timer, pc, runLocals, result,
                    gpuCounters, cycle, log, startInfo, sends, dropped,
                    stoppedMid, reported, accumulated >>

\* unbuffered `out`: the consumer receives while Run waits in `out <- ""`
ConsumerRendezvous ==
    /\ capOut = 0
    /\ pc = "flush"
    /\ sends' = Append(sends, "")
    /\ pc' = AfterFlush
    /\ UNCHANGED << config, fpState, pwState, nmp, accBefore, emitted, out, stopped, timer, runLocals, result,
                    gpuCounters, cycle, log, startInfo, dropped, stoppedMid,
                    reported, accumulated >>

\* the steps Run takes on its own
RunOwnSteps ==
    \/ RunTick
    \/ RunStop
    \/ RunSteps
    \/ RunHandleResult
    \/ RunFlush
    \/ RunCheckFull
    \/ RunSendOk

(***************************************************************************)
(* package podwatcher (release.yml:728-814): a map from namespace/name to  *)
(* the pod's ObjectMeta, written by the informer's event handlers and read *)
(* by GetObjectMeta, all under one mutex.                                  *)
(***************************************************************************)
Namespaces == {"ns1", "ns2"}
PodNames == {"a"}

\* metav1.ObjectMeta: the fields the package reads, and one that tells two
\* versions of the same pod apart
ObjectMeta(ns, name, rv) ==
    [Namespace |-> ns, Name |-> name, ResourceVersion |-> rv]

\* the nil *metav1.ObjectMeta
NilMeta == ObjectMeta("", "", "nil")

\* what the informer hands to a handler: a *corev1.Pod, or, for a deletion it
\* did not observe, a cache.DeletedFinalStateUnknown
Pod(meta) == [kind |-> "Pod", ObjectMeta |-> meta]
Tombstone(meta) == [kind |-> "DeletedFinalStateUnknown", ObjectMeta |-> meta]
NoObject == [kind |-> "none", ObjectMeta |-> NilMeta]

PwCallOf(op, obj, ns, name) ==
    [op |-> op, obj |-> obj, namespace |-> ns, name |-> name]

\* the calls made on the PodWatcher
PwCalls ==
    { PwCallOf("addPod", Pod(ObjectMeta(ns, n, "1")), "", "") :
        ns \in Namespaces, n \in PodNames }
      \cup { PwCallOf("updatePod", Pod(ObjectMeta(ns, n, "2")), "", "") :
               ns \in Namespaces, n \in PodNames }
      \cup { PwCallOf("deletePod", Pod(ObjectMeta(ns, n, "2")), "", "") :
               ns \in Namespaces, n \in PodNames }
      \cup { PwCallOf("deletePod", Tombstone(ObjectMeta(ns, n, "2")), "", "") :
               ns \in Namespaces, n \in PodNames }
      \cup { PwCallOf("GetObjectMeta", NoObject, ns, n) :
               ns \in Namespaces, n \in PodNames }

PwHandlers == {"addPod", "updatePod", "deletePod"}

\* the goroutines calling the PodWatcher
PwThreads == {"g1", "g2"}
NoHolder == "none"
NoCall == PwCallOf("none", NoObject, "", "")
PwIdle == [pc |-> "idle", call |-> NoCall, ticket |-> 0]

\* lines 759-762: New() makes the map; the mutex is unlocked
NewPodWatcher ==
    /\ pwM = [k \in {} |-> NilMeta]
    /\ pwMu = NoHolder
    /\ pwT = [t \in PwThreads |-> PwIdle]
    /\ pwHist = [calls |-> 0, acquired |-> << >>, applied |-> << >>]

\* ignores the namespace
NameOnly(meta) == meta.Name

\* lines 785-787
namespacedName(meta) == meta.Namespace \o "/" \o meta.Name

\* pw.m[key], nil when absent
PwLookup(m, key) == IF key \in DOMAIN m THEN m[key] ELSE NilMeta

\* pw.m[key] = meta
PwStore(m, key, meta) ==
    [k \in DOMAIN m \cup {key} |-> IF k = key THEN meta ELSE m[k]]

\* delete(pw.m, key)
PwDelete(m, key) == [k \in DOMAIN m \ {key} |-> m[k]]

\* a panic in any goroutine ends the process
PwPanicked == \E t \in PwThreads : pwT[t].pc = "panic"

\* never blocks
AlwaysLock(holder) == TRUE

\* sync.Mutex.Lock returns only when no goroutine holds the mutex
CanLock(holder) == holder = NoHolder

\* the call begins; a handler first asserts that its object is a *corev1.Pod
\* (lines 790, 797, 804), which panics on anything else
PwCall(t) ==
    /\ ~PwPanicked
    /\ pwT[t].pc = "idle"
    /\ pwHist.calls < MaxEvents
    /\ \E c \in PwCalls :
          pwT' = [pwT EXCEPT ![t] =
                    [pc |-> IF c.op \in PwHandlers /\ c.obj.kind # "Pod"
                               THEN "panic" ELSE "lock",
                     call |-> c, ticket |-> 0]]
    /\ pwHist' = [pwHist EXCEPT !.calls = @ + 1]
    /\ UNCHANGED << pwM, pwMu >>

\* pw.mu.Lock() (lines 791, 798, 805, 811)
PwLock(t) ==
    /\ ~PwPanicked
    /\ pwT[t].pc = "lock"
    /\ CanLock(pwMu)
    /\ pwMu' = t
    /\ pwHist' = [pwHist EXCEPT !.acquired = Append(@, pwT[t].call)]
    /\ pwT' = [pwT EXCEPT ![t].pc = "access",
                          ![t].ticket = Len(pwHist.acquired) + 1]
    /\ UNCHANGED pwM

\* some other goroutine is between its Lock and its Unlock with a write
WriterInside(t) ==
    \E u \in PwThreads \ {t} :
        pwT[u].pc = "access" /\ pwT[u].call.op \in PwHandlers

\* what the read of line 813 can give: the map's entry, or, when it races
\* with a write of the map, anything at all
ReadOutcomes(t, key) ==
    IF WriterInside(t) THEN {PwLookup(pwM, key), ObjectMeta("", "", "torn")}
    ELSE {PwLookup(pwM, key)}

\* the map access of the call (lines 792, 799, 806, 813)
PwAccess(t) ==
    LET c == pwT[t].call
        meta == c.obj.ObjectMeta
    IN  /\ ~PwPanicked
        /\ pwT[t].pc = "access"
        /\ \E res \in ReadOutcomes(t, c.namespace \o "/" \o c.name) :
              /\ pwM' = CASE c.op \in {"addPod", "updatePod"} ->
                                PwStore(pwM, namespacedName(meta), meta)
                          [] c.op = "deletePod" ->
                                PwDelete(pwM, namespacedName(meta))
                          [] OTHER -> pwM
              /\ pwHist' = [pwHist EXCEPT !.applied =
                              Append(@, [call |-> c,
                                         ticket |-> pwT[t].ticket,
                                         res |-> IF c.op = "GetObjectMeta"
                                                    THEN res ELSE NilMeta])]
        /\ pwT' = [pwT EXCEPT ![t].pc = "unlock"]
        /\ UNCHANGED pwMu

\* pw.mu.Unlock() (lines 793, 800, 807, and 812 deferred), then the return
PwUnlock(t) ==
    /\ ~PwPanicked
    /\ pwT[t].pc = "unlock"
    /\ pwMu' = NoHolder
    /\ pwT' = [pwT EXCEPT ![t] = PwIdle]
    /\ UNCHANGED << pwM, pwHist >>

PwFrame ==
    UNCHANGED << config, fpState, nmp, accBefore, emitted, out, stopped, timer,
                 pc, runLocals, result, gpuCounters, cycle, log, startInfo,
                 sends, dropped, stoppedMid, reported, accumulated >>

PodWatcherCall == \E t \in PwThreads : PwCall(t) /\ PwFrame
PodWatcherLock == \E t \in PwThreads : PwLock(t) /\ PwFrame
PodWatcherAccess == \E t \in PwThreads : PwAccess(t) /\ PwFrame
PodWatcherUnlock == \E t \in PwThreads : PwUnlock(t) /\ PwFrame

\* the pipeline's constructor has returned and the pipeline is in use
NmpReturned == [pc |-> "inUse"]
ConstructorReturned == nmp = NmpReturned

(***************************************************************************)
(* Specifications.                                                         *)
(***************************************************************************)
AllGroups == Range(Groups)

InitState ==
    /\ out = << >>
    /\ stopped = FALSE
    /\ tC = 0
    /\ ti = 1
    /\ metrics = NoMetrics
    /\ formatted = ""
    /\ o = ""
    /\ err = FALSE
    /\ gpuCounters = [f \in {} |-> 0]
    /\ extended = NoMetrics
    /\ cycle = 0
    /\ log = << >>
    /\ fires = 0
    /\ firedDuring = FALSE
    /\ firedIdle = FALSE
    /\ startInfo = [overran |-> FALSE, idle |-> FALSE]
    /\ sends = << >>
    /\ dropped = 0
    /\ stoppedMid = FALSE
    /\ reported = NoHistory
    /\ accumulated = NoHistory
    /\ emitted = << >>
    /\ accBefore = gpuCounters
    /\ NewPodWatcher

\* lines 201-229: the instruments are registered iff a meter is configured
MetersRegistered ==
    otelMeters = IF otel /\ constructor = "NewMetricsPipeline"
                 THEN NewOtelMeters(counters) ELSE NilOtelMeters

\* metricFingerprint not called on its own
NoFingerprintCall ==
    /\ fpA = GpuMetric(V7, "0")
    /\ fpB = GpuMetric(V7, "0")
    /\ fpOut = [done |-> FALSE, a |-> "", b |-> ""]

\* Run started on a pipeline built by NewMetricsPipeline
Init ==
    /\ InitState
    /\ NoFingerprintCall
    /\ ConstructorReturned
    /\ constructor = "NewMetricsPipeline"
    /\ pc = "select"
    /\ \/ /\ collectors = {"gpu"}
          /\ transformations = getTransformations(TRUE, FALSE)
       \/ /\ collectors = {"switch", "link"}
          /\ transformations = getTransformations(FALSE, FALSE)
    /\ devices = 1
    /\ gpuValues = {V42, VBad}
    /\ counters = << UTIL >>
    /\ otel = FALSE
    /\ MetersRegistered
    /\ capOut \in 0..MaxCap

Next ==
    \/ TimerFire
    \/ EnvStop
    \/ RunOwnSteps
    \/ ConsumerRecv
    \/ ConsumerRendezvous

Spec == Init /\ [][Next]_vars

\* the goroutine running Run is scheduled whenever it can take a step; Go's
\* select chooses at random among the ready cases, so `stop` is not starved
FairSpec ==
    /\ Spec
    /\ WF_vars(RunTick \/ RunSteps \/ RunHandleResult \/ RunFlush
                 \/ RunCheckFull \/ RunSendOk)
    /\ SF_vars(RunStop)

\* run called directly, cycle after cycle, on every pipeline configuration
CallRun ==
    /\ pc \in {"idle", "returned"}
    /\ EnterRun
    /\ UNCHANGED << config, fpState, pwState, nmp, out, stopped, timer, gpuCounters, startInfo,
                    dropped, stoppedMid, reported, accumulated >>

InitCycle ==
    /\ InitState
    /\ NoFingerprintCall
    /\ ConstructorReturned
    /\ constructor = "NewMetricsPipeline"
    /\ pc = "idle"
    /\ \/ /\ collectors \in SUBSET AllGroups
          /\ devices = 1
          /\ gpuValues = {V42, VBad}
          /\ transformations = getTransformations(FALSE, FALSE)
          /\ counters = << UTIL >>
          /\ otel = FALSE
       \/ /\ collectors = {"gpu"}
          /\ devices = 1
          /\ gpuValues = GpuValues
          /\ transformations = getTransformations(FALSE, FALSE)
          /\ counters = << UTIL >>
          /\ otel = FALSE
       \/ /\ collectors = {"gpu"}
          /\ devices = 1
          /\ gpuValues = {V42, V7, VBad}
          /\ transformations \in
                { getTransformations(k, h) : k \in BOOLEAN, h \in BOOLEAN }
          /\ counters = << UTIL >>
          /\ otel \in BOOLEAN
       \/ /\ collectors = {"gpu"}
          /\ devices = 2
          /\ gpuValues = {V7, VBad}
          /\ transformations \in
                { getTransformations(k, FALSE) : k \in BOOLEAN }
          /\ counters = << UTIL >>
          /\ otel \in BOOLEAN
       \/ /\ collectors = {"gpu"}
          /\ devices = 1
          /\ gpuValues = {V7, VBad}
          /\ transformations = getTransformations(FALSE, FALSE)
          /\ counters = << UTIL, KindCounter("gauge") >>
          /\ otel = FALSE
       \/ /\ collectors = {"gpu"}
          /\ devices = 1
          /\ gpuValues = {V7, VBad}
          /\ transformations = getTransformations(FALSE, FALSE)
          /\ counters \in { << KindCounter(pt) >> : pt \in promMetricType }
          /\ otel = TRUE
       \/ /\ collectors \in {{"switch"}, {"gpu", "switch"}}
          /\ devices = 1
          /\ gpuValues = {V7}
          /\ transformations = getTransformations(TRUE, FALSE)
          /\ counters = << UTIL >>
          /\ otel = TRUE
    /\ MetersRegistered
    /\ capOut = 1

NextCycle == CallRun \/ RunSteps

SpecCycle == InitCycle /\ [][NextCycle]_vars

(***************************************************************************)
(* run called on pipelines built by either constructor.                    *)
(***************************************************************************)
InitCtor ==
    /\ InitState
    /\ NoFingerprintCall
    /\ ConstructorReturned
    /\ pc = "idle"
    /\ \/ /\ constructor = "NewMetricsPipeline"
          /\ transformations \in
                { getTransformations(k, FALSE) : k \in BOOLEAN }
       \/ /\ constructor = "NewMetricsPipelineWithGPUCollector"
          /\ transformations = << >>
    /\ collectors = {"gpu"}
    /\ devices = 1
    /\ gpuValues = {V7, VBad}
    /\ counters = << UTIL >>
    /\ otel \in BOOLEAN
    /\ MetersRegistered
    /\ capOut = 1

NextCtor == CallRun \/ RunSteps

SpecCtor == InitCtor /\ [][NextCtor]_vars

(***************************************************************************)
(* metricFingerprint called on pairs of Metrics.                           *)
(***************************************************************************)
\* Go maps with keys among "pod", "zone"
KeyMaps ==
    UNION { [ks -> {"w1", "w2"}] : ks \in SUBSET {"pod", "zone"} }

\* the Metrics metricFingerprint is called on
FpMetrics ==
    { Metric(UTIL, v, g, l, a) :
        v \in {V42, V7}, g \in {"0"}, l \in KeyMaps, a \in {EmptyMap} }
      \cup { Metric(UTIL, V7, g, EmptyMap, a) : g \in {"0", "1"}, a \in KeyMaps }
      \cup { Metric(AUX, V7, "0", l, EmptyMap) : l \in KeyMaps }

\* m.metricFingerprint() on both Metrics, each map iterated in some order
FingerprintCall ==
    /\ ~fpOut.done
    /\ \E la \in Orders(DOMAIN fpA.Labels), aa \in Orders(DOMAIN fpA.Attributes),
          lb \in Orders(DOMAIN fpB.Labels), ab \in Orders(DOMAIN fpB.Attributes) :
          fpOut' = [done |-> TRUE,
                    a |-> metricFingerprint(fpA, la, aa),
                    b |-> metricFingerprint(fpB, lb, ab)]
    /\ UNCHANGED << config, pwState, nmp, accBefore, emitted, out, stopped, timer, pc, runLocals, result,
                    gpuCounters, cycle, log, startInfo, sends, dropped,
                    stoppedMid, reported, accumulated, fpA, fpB >>

InitFP ==
    /\ InitState
    /\ pc = "idle"
    /\ ConstructorReturned
    /\ constructor = "NewMetricsPipeline"
    /\ collectors = {"gpu"}
    /\ devices = 1
    /\ transformations = << >>
    /\ gpuValues = GpuValues
    /\ counters = << UTIL >>
    /\ otel = FALSE
    /\ MetersRegistered
    /\ capOut = 1
    /\ fpA \in FpMetrics
    /\ fpB \in FpMetrics
    /\ fpOut = [done |-> FALSE, a |-> "", b |-> ""]

NextFP == FingerprintCall

SpecFP == InitFP /\ [][NextFP]_vars

(***************************************************************************)
(* Goroutines calling the PodWatcher concurrently.                         *)
(***************************************************************************)
InitPW ==
    /\ InitState
    /\ NoFingerprintCall
    /\ ConstructorReturned
    /\ constructor = "NewMetricsPipeline"
    /\ pc = "idle"
    /\ collectors = {"gpu"}
    /\ devices = 1
    /\ transformations = getTransformations(TRUE, FALSE)
    /\ gpuValues = {V7}
    /\ counters = << UTIL >>
    /\ otel = FALSE
    /\ MetersRegistered
    /\ capOut = 1

NextPW ==
    \/ PodWatcherCall
    \/ PodWatcherLock
    \/ PodWatcherAccess
    \/ PodWatcherUnlock

SpecPW == InitPW /\ [][NextPW]_vars

(***************************************************************************)
(* A call of NewMetricsPipeline (release.yml:133-254), and the caller      *)
(* calling the cleanup function it returned.                               *)
(***************************************************************************)
\* what newDCGMCollector can return with an error beside the nil collector:
\* a function that does nothing, or no function
ErrorCleanups == {"noop", "nil"}

\* the cleanup of a collector of group g
Cleanup(g, kind) == [g |-> g, kind |-> kind]

NoResult == [pipeline |-> FALSE, cleanup |-> "none", err |-> FALSE]

\* line 141 and the declarations 143-150
NmpStart(present) ==
    [pc |-> "collectors", present |-> present, i |-> 1, created |-> {},
     cleanups |-> << >>, k |-> 1, result |-> NoResult,
     released |-> [g \in Range(Groups) |-> 0]]

\* where the constructor goes after the fifth group: lines 198-200
AfterCollectors(i) ==
    IF i < Len(Groups) THEN "collectors"
    ELSE IF otel THEN "meters" ELSE "return"

NmpFrame ==
    UNCHANGED << config, fpState, pwState, accBefore, emitted, out, stopped,
                 timer, pc, runLocals, result, gpuCounters, cycle, log,
                 startInfo, sends, dropped, stoppedMid, reported, accumulated >>

\* lines 152-195, one entity group: when the group exists newDCGMCollector is
\* called and the cleanup it returns is appended, error or not
NmpCollector ==
    /\ nmp.pc = "collectors"
    /\ LET g == Groups[nmp.i]
           next == [nmp EXCEPT !.i = IF @ < Len(Groups) THEN @ + 1 ELSE @,
                               !.pc = AfterCollectors(nmp.i)]
       IN  \/ /\ g \notin nmp.present
              /\ nmp' = next
           \/ /\ g \in nmp.present
              /\ nmp' = [next EXCEPT
                           !.created = @ \cup {g},
                           !.cleanups = Append(@, Cleanup(g, "release"))]
           \/ /\ g \in nmp.present
              /\ \E kind \in ErrorCleanups :
                    nmp' = [next EXCEPT
                              !.cleanups = Append(@, Cleanup(g, kind))]
    /\ NmpFrame

\* lines 206, 214, 219, 224: onErrCleanupFunc := func() {}
onErrCleanupFunc == "noop"

\* lines 208-227, one configured counter: the instrument of its PromType is
\* created; a failure returns nil, onErrCleanupFunc and the error
NmpRegister ==
    /\ nmp.pc = "meters"
    /\ nmp.k <= Len(counters)
    /\ LET next == [nmp EXCEPT !.k = @ + 1]
       IN  \/ nmp' = next
           \/ /\ counters[nmp.k].PromType \in ObservedKinds
              /\ nmp' = [nmp EXCEPT
                           !.pc = "returned",
                           !.result = [pipeline |-> FALSE,
                                       cleanup |-> onErrCleanupFunc,
                                       err |-> TRUE]]
    /\ NmpFrame

\* lines 231-254: the pipeline and the cleanup that calls every appended one
NmpReturn ==
    /\ \/ nmp.pc = "return"
       \/ nmp.pc = "meters" /\ nmp.k > Len(counters)
    /\ nmp' = [nmp EXCEPT
                 !.pc = "returned",
                 !.result = [pipeline |-> TRUE, cleanup |-> "all",
                             err |-> FALSE]]
    /\ NmpFrame

RECURSIVE CallCleanups(_, _)
\* lines 250-253: `for _, cleanup := range cleanups { cleanup() }`; calling a
\* nil function panics
CallCleanups(cs, released) ==
    IF cs = << >> THEN [panic |-> FALSE, released |-> released]
    ELSE IF Head(cs).kind = "nil" THEN [panic |-> TRUE, released |-> released]
    ELSE CallCleanups(Tail(cs),
                      IF Head(cs).kind = "release"
                      THEN [released EXCEPT ![Head(cs).g] = @ + 1]
                      ELSE released)

\* the caller calls the cleanup function it was handed
NmpCleanup ==
    /\ nmp.pc = "returned"
    /\ LET r == IF nmp.result.cleanup = "all"
                THEN CallCleanups(nmp.cleanups, nmp.released)
                ELSE [panic |-> FALSE, released |-> nmp.released]
       IN  nmp' = [nmp EXCEPT !.pc = IF r.panic THEN "panic" ELSE "cleaned",
                              !.released = r.released]
    /\ NmpFrame

InitNew ==
    /\ InitState
    /\ NoFingerprintCall
    /\ constructor = "NewMetricsPipeline"
    /\ pc = "idle"
    /\ collectors = {}
    /\ devices = 1
    /\ transformations = getTransformations(FALSE, FALSE)
    /\ gpuValues = {V7}
    /\ counters \in { << UTIL >>, << KindCounter("label"), UTIL >> }
    /\ otel \in BOOLEAN
    /\ otelMeters = NilOtelMeters
    /\ capOut = 1
    /\ \E present \in SUBSET AllGroups : nmp = NmpStart(present)

NextNew ==
    \/ NmpCollector
    \/ NmpRegister
    \/ NmpReturn
    \/ NmpCleanup

SpecNew == InitNew /\ [][NextNew]_vars

(***************************************************************************)
(* Properties.                                                             *)
(***************************************************************************)
RECURSIVE OkTexts(_)
\* the texts of the groups rendered without error in the current cycle
OkTexts(l) ==
    IF l = << >> THEN << >>
    ELSE (IF Head(l).ev = "render" /\ Head(l).ok THEN << Head(l).text >>
          ELSE << >>) \o OkTexts(Tail(l))

CollectFailed == \E i \in DOMAIN log : log[i].ev = "collect" /\ ~log[i].ok

\* a step of the current cycle failed in a way run treats as fatal
FatalInCycle ==
    \E i \in DOMAIN log :
        /\ ~log[i].ok
        /\ \/ log[i].ev \in {"collect", "transform"}
           \/ log[i].ev = "render" /\ log[i].g = "gpu"

Collected(g) == \E i \in DOMAIN log : log[i].ev = "collect" /\ log[i].g = g

\* C1: when a cycle has failed and `out` is full, Run can take the step of
\* line 311 (the empty string being dropped) instead of waiting for a receiver.
C1_FlushNeverBlocks ==
    (pc = "flush" /\ Len(out) = capOut) => ENABLED RunFlush

\* C2: on a successful cycle Run sends only after finding room in `out`, the
\* send of line 318 is never reached with `out` full, and a text that finds
\* `out` full is dropped without touching the channel.
C2_SuccessSendNeverBlocks ==
    /\ [](pc = "sendOk" => CanSend)
    /\ [][(pc = "check" /\ Len(out) = capOut /\ pc' # "check")
            => (pc' = "select" /\ out' = out /\ sends' = sends
                  /\ dropped' = dropped + 1)]_vars

C2_Witness ==
    /\ pc = "select"
    /\ dropped > 0
    /\ capOut > 0
    /\ Len(out) = capOut
    /\ sends = << >>
    /\ ~err

\* C3: when the collector of any group returns an error, run returns the
\* empty string and an error, whatever earlier groups rendered.
C3_CollectErrorYieldsEmpty ==
    (pc = "returned" /\ CollectFailed) => (o = "" /\ err)

C3_Witness ==
    /\ pc = "returned"
    /\ CollectFailed
    /\ log[Len(log)].g = "core"
    /\ Len(OkTexts(log)) >= 2
    /\ OkTexts(log)[1] # ""

\* C4: a render failure of the switch, link, CPU or CPU-core group does not
\* fail the cycle: absent a fatal step the cycle succeeds, every active group
\* is collected, and the result is the concatenation of the texts of the
\* groups that rendered.
C4_RenderFailureRecoverable ==
    (pc = "returned" /\ ~FatalInCycle) =>
        /\ ~err
        /\ o = Concat(OkTexts(log))
        /\ \A g \in collectors : Collected(g)

C4_Witness ==
    /\ pc = "returned"
    /\ ~FatalInCycle
    /\ \E i \in DOMAIN log :
          /\ log[i].ev = "render" /\ ~log[i].ok /\ log[i].g = "switch"
          /\ \E j \in DOMAIN log :
                j > i /\ log[j].ev = "render" /\ log[j].ok /\ log[j].text # ""
    /\ Len(OkTexts(log)) >= 2
    /\ o # ""

\* the derived entries of the augmented grouping of the current cycle, each
\* with the fingerprint of the metric it was derived from
DerivedEntries ==
    UNION { { [fp |-> CHOOSE f \in Fingerprints([d EXCEPT !.Counter = c]) : TRUE,
               value |-> d.Value] :
              d \in IF DerivedCounter(c) \in DOMAIN extended
                    THEN Range(extended[DerivedCounter(c)]) ELSE {} } :
            c \in DOMAIN extended }

\* all the Values of a history are the same parsable value
Uniform(h) == h # << >> /\ ~ParseErr(h[1]) /\ \A i \in DOMAIN h : h[i] = h[1]

C6_SentValues ==
    /\ Len(sends) <= 1
    /\ sends # << >> =>
          /\ err => sends[1] = ""
          /\ ~err => (sends[1] = o /\ o = Concat(OkTexts(log)))
    /\ Len(out) <= capOut

C6_Witness ==
    /\ sends = << "" >>
    /\ err
    /\ OkTexts(log) # << >>
    /\ OkTexts(log)[1] # ""

\* C7: Run returns only from the select statement, on a pending `stop`; once
\* it has returned it starts no cycle, changes no accumulator entry and sends
\* nothing.
C7_StopOnlyBetweenCycles ==
    [][/\ (pc' = "done" /\ pc # "done") => (pc = "select" /\ stopped)
       /\ pc = "done" =>
             /\ pc' = "done"
             /\ cycle' = cycle
             /\ gpuCounters' = gpuCounters
             /\ sends' = sends
             /\ Len(out') <= Len(out)]_vars

C7_Witness ==
    /\ pc = "done"
    /\ stoppedMid
    /\ Len(sends) = 1
    /\ DOMAIN gpuCounters # {}

\* C8: once `stop` is signalled Run eventually returns, whatever the consumer
\* of `out` does.
C8_StopLeadsToReturn == stopped ~> (pc = "done")

\* C9 as stated: a cycle that follows an overrunning cycle starts only at a
\* timer event that elapsed after the overrunning cycle completed.
C9_WaitsForNextTimerEvent ==
    (cycle >= 2 /\ startInfo.overran) => startInfo.idle

\* C9 amended: ticks are coalesced: at most one timer event is buffered, every
\* cycle consumed one timer event of its own, and after an overrunning cycle a
\* tick is already buffered when the cycle completes, so that the next cycle
\* can start at once.
C9_TicksCoalesced ==
    /\ tC <= 1
    /\ cycle + tC <= fires
    /\ (pc = "select" /\ firedDuring) => tC = 1

C9_Witness ==
    /\ cycle >= 2
    /\ startInfo.overran
    /\ ~startInfo.idle
    /\ fires = 3
    /\ tC = 0

\* the two Metrics agree on FieldName, on every entity identifier, on Labels
\* and on Attributes
SameSeries(a, b) ==
    /\ a.Counter.FieldName = b.Counter.FieldName
    /\ << a.GPU, a.GPUUUID, a.GPUDevice, a.GPUModelName, a.GPUPCIBusID, a.UUID,
          a.MigProfile, a.GPUInstanceID, a.Hostname >>
         = << b.GPU, b.GPUUUID, b.GPUDevice, b.GPUModelName, b.GPUPCIBusID,
              b.UUID, b.MigProfile, b.GPUInstanceID, b.Hostname >>
    /\ a.Labels = b.Labels
    /\ a.Attributes = b.Attributes

\* C10: two Metrics with equal FieldName, entity identifiers, Labels and
\* Attributes have the same fingerprint, in whatever order the maps are
\* iterated and whatever their Values.
C10_FingerprintStable ==
    (fpOut.done /\ SameSeries(fpA, fpB)) => fpOut.a = fpOut.b

C10_Witness ==
    /\ fpOut.done
    /\ SameSeries(fpA, fpB)
    /\ fpA.Value # fpB.Value
    /\ fpA.Counter # fpB.Counter
    /\ Cardinality(DOMAIN fpA.Labels) = 2
    /\ fpOut.a = fpOut.b

\* C11: two Metrics that differ in FieldName, in an entity identifier, in
\* Labels or in Attributes have different fingerprints (so they never share an
\* accumulator entry), also when the same key/value pair is a Label of one
\* and an Attribute of the other.
C11_FingerprintUnique ==
    (fpOut.done /\ ~SameSeries(fpA, fpB)) => fpOut.a # fpOut.b

\* C12: the accumulator step leaves every entry of the collected GPU grouping
\* in the augmented grouping with exactly its original metric list; the
\* derived Counter (FieldName + "_COUNTER", PromType "counter") is a key the
\* collected grouping does not hold, and the augmented grouping holds nothing
\* but the original and the derived entries.
C12_OriginalEntriesRetained ==
    [][pc = "accumulate" =>
         /\ \A c \in DOMAIN metrics :
               LET d == [c EXCEPT !.FieldName = c.FieldName \o "_COUNTER",
                                  !.PromType = "counter"]
               IN  /\ c \in DOMAIN extended'
                   /\ extended'[c] = metrics[c]
                   /\ d \notin DOMAIN metrics
                   /\ d \in DOMAIN extended'
         /\ Cardinality(DOMAIN extended') = 2 * Cardinality(DOMAIN metrics)]_vars

C12_Witness ==
    /\ pc = "switch"
    /\ cycle = 2
    /\ Cardinality(DOMAIN extended) = 4
    /\ \E c \in DOMAIN extended :
          /\ c.PromType = "gauge"
          /\ extended[c][1].Value = VBad
          /\ extended[DerivedCounter(c)] = << >>
    /\ \E c \in DOMAIN extended :
          /\ c.PromType = "gauge"
          /\ extended[c][1].Value = V7
          /\ extended[DerivedCounter(c)][1].Value = << "1", "4" >>

\* C13: the derived _COUNTER value produced for a fingerprint is never below
\* the value produced for it in the previous cycle that observed it (the sum
\* the accumulator held), for every parsable sampled value.
C13_DerivedSeriesMonotone ==
    [][pc = "accumulate" =>
         \A e \in DerivedEntries' :
             e.fp \in DOMAIN gpuCounters =>
                 ParseFloat(e.value) >= gpuCounters[e.fp]]_vars

\* the derived entry d was made from the metric m of Counter c
DerivedFrom(d, m, c) == [d EXCEPT !.Counter = c, !.Value = m.Value] = m

\* C14: a GPU metric whose Value does not parse does not fail the accumulator
\* step (only the rendering can fail the cycle there); its fingerprint's
\* accumulator entry is neither created nor changed, it gets no derived entry,
\* the original list is retained, and every parsable metric of the same
\* Counter is accumulated and gets its derived entry.
C14_ParseErrorIsLocal ==
    [][pc = "accumulate" =>
         \A c \in DOMAIN metrics : \A m \in Range(metrics[c]) :
             ParseErr(m.Value) =>
                 LET derived == extended'[DerivedCounter(c)]
                 IN  /\ pc' = "switch" \/ ~log'[Len(log')].ok
                     /\ log'[Len(log')].ev = "render"
                     /\ \A fp \in Fingerprints(m) :
                           /\ fp \in DOMAIN gpuCounters' <=> fp \in DOMAIN gpuCounters
                           /\ GetSum(gpuCounters', fp) = GetSum(gpuCounters, fp)
                     /\ \A i \in DOMAIN derived : ~DerivedFrom(derived[i], m, c)
                     /\ extended'[c] = metrics[c]
                     /\ \A n \in Range(metrics[c]) :
                           ~ParseErr(n.Value) =>
                              \E i \in DOMAIN derived : \A fp \in Fingerprints(n) :
                                  /\ DerivedFrom(derived[i], n, c)
                                  /\ gpuCounters'[fp] =
                                        GetSum(gpuCounters, fp) + ParseFloat(n.Value)
                                  /\ derived[i].Value = FormatFloat(gpuCounters'[fp])]_vars

C14_Witness ==
    /\ pc = "switch"
    /\ cycle = 2
    /\ devices = 2
    /\ \E c \in DOMAIN extended :
          /\ c.PromType = "gauge"
          /\ extended[c][1].Value = VBad
          /\ extended[c][2].Value = V7
          /\ Len(extended[DerivedCounter(c)]) = 1
          /\ extended[DerivedCounter(c)][1].GPU = "1"
          /\ extended[DerivedCounter(c)][1].Value = << "1", "4" >>
    /\ Cardinality(DOMAIN gpuCounters) = 1

\* the Transform Stage calls of the current cycle, in order
StageCalls == SelectSeq(log, LAMBDA e : e.ev = "transform")

\* the emitter or the accumulator has acted on the GPU grouping in this cycle
GpuProcessed ==
    \E i \in DOMAIN log : log[i].ev \in {"emit", "accumulate"} /\ log[i].g = "gpu"

\* C15: in every cycle the stages called are a prefix of the configured list,
\* each once and in order, right after the GPU collection and only when there
\* is a GPU collector; the emitter and the accumulator act on the GPU grouping
\* only after every stage has run without error; a stage that fails ends the
\* cycle on the spot with the empty string and an error, nothing having been
\* emitted or accumulated and no other group collected.
C15_TransformsOrderedAndFatal ==
    /\ [](/\ Len(StageCalls) <= Len(transformations)
          /\ \A i \in DOMAIN StageCalls : StageCalls[i].g = transformations[i]
          /\ "gpu" \notin collectors => StageCalls = << >>
          /\ \A j \in DOMAIN log :
                log[j].ev = "transform" =>
                    /\ log[1] = Event("collect", "gpu", TRUE, "")
                    /\ \A i \in 2..(j - 1) : log[i].ev = "transform" /\ log[i].ok
          /\ GpuProcessed =>
                /\ Len(StageCalls) = Len(transformations)
                /\ \A i \in DOMAIN StageCalls : StageCalls[i].ok
          /\ \A j \in DOMAIN log :
                (log[j].ev = "transform" /\ ~log[j].ok) =>
                    /\ j = Len(log)
                    /\ pc = "returned" /\ o = "" /\ err
                    /\ emitted = << >>)
    /\ [][/\ gpuCounters' # gpuCounters =>
                \E i \in DOMAIN log' : log'[i] = Event("accumulate", "gpu", TRUE, "")
          /\ (emitted' # emitted /\ emitted' # << >>) =>
                \E i \in DOMAIN log' : log'[i].ev = "emit"]_vars

C15_Witness ==
    /\ pc = "returned"
    /\ cycle = 2
    /\ otel
    /\ err
    /\ Len(transformations) = 2
    /\ Len(log) = 3
    /\ log[2] = Event("transform", "podMapper", TRUE, "")
    /\ log[3] = Event("transform", "hpcMapper", FALSE, "")
    /\ DOMAIN gpuCounters # {}

\* the text rendered for group g in the current cycle ("" when none was)
TextOf(g) ==
    IF \E i \in DOMAIN log : log[i].ev = "render" /\ log[i].g = g
    THEN log[CHOOSE i \in DOMAIN log : log[i].ev = "render" /\ log[i].g = g].text
    ELSE ""

\* C16: a successful cycle returns the texts of the groups concatenated in the
\* order GPU, switch, link, CPU, CPU-core; a group without collector leaves no
\* trace in the cycle (no collection, no emission, no text) and causes no
\* error: a cycle fails only on a failed step of a group that has a collector.
C16_GroupOrderAndAbsentGroups ==
    /\ (pc = "returned" /\ ~err) =>
          o = TextOf("gpu") \o TextOf("switch") \o TextOf("link")
                \o TextOf("cpu") \o TextOf("core")
    /\ \A g \in AllGroups \ collectors :
          /\ \A i \in DOMAIN log : log[i].g # g
          /\ \A i \in DOMAIN emitted : emitted[i].g # g
          /\ TextOf(g) = ""
    /\ (pc = "returned" /\ err) =>
          \E i \in DOMAIN log : ~log[i].ok /\ log[i].g \in collectors \cup Range(transformations)

C16_Witness ==
    /\ pc = "returned"
    /\ ~err
    /\ collectors = {"gpu", "link", "core"}
    /\ TextOf("gpu") # ""
    /\ TextOf("link") # ""
    /\ TextOf("core") # ""
    /\ TextOf("link") # TextOf("core")
    /\ o = TextOf("gpu") \o TextOf("link") \o TextOf("core")

\* the attribute set of a Metric of group g on its own: its fixed positional
\* labels, its Labels and its Attributes, every key lower-cased
OwnAttributeSet(g, m) ==
    WithAttributes(LowerKeys(OwnAttrs(g, m,
        CHOOSE s \in Orders(DOMAIN m.Labels) : TRUE,
        CHOOSE s \in Orders(DOMAIN m.Attributes) : TRUE)))

\* C17: every instrument call receives exactly the attribute set of the Metric
\* it is made for, whatever the Metric's position in its Counter's list.
C17_OwnAttributesOnly ==
    \A i \in DOMAIN emitted :
        emitted[i].attrs = OwnAttributeSet(emitted[i].g, emitted[i].of)

\* C18: when the emitter has gone through the GPU grouping without a panic,
\* every Metric handed to it had a registered instrument of its Counter's kind
\* under the lower-cased field name and was passed to it: no emission is
\* skipped, whatever the Counter's PromType.
C18_UnregisteredEmissionPanics ==
    (otel /\ pc = "accumulate") =>
        \A c \in DOMAIN metrics : \A i \in DOMAIN metrics[c] :
            /\ HasInstrument(otelMeters, c.PromType, ToLower(c.FieldName))
            /\ \E j \in DOMAIN emitted : emitted[j].of = metrics[c][i]

\* C19: with a meter configured, a GPU Metric of kind gauge, counter or
\* histogram whose Value does not parse makes the emitter panic; the process
\* stops there, the accumulator is not reached in that cycle and no
\* accumulator entry changes.
C19_EmitterPanicsOnBadValue ==
    /\ [][(/\ pc = "emit"
           /\ otel
           /\ \E m \in AllMetrics(metrics) :
                 m.Counter.PromType \in ObservedKinds /\ ParseErr(m.Value))
            => (pc' = "panic" /\ gpuCounters' = gpuCounters)]_vars
    /\ [][pc = "panic" => (pc' = "panic" /\ gpuCounters' = gpuCounters)]_vars
    /\ [](pc = "panic" =>
             /\ \A i \in DOMAIN log : log[i].ev # "accumulate"
             /\ log[Len(log)] = Event("emit", log[Len(log)].g, FALSE, ""))

C19_Witness ==
    /\ pc = "panic"
    /\ cycle = 2
    /\ devices = 2
    /\ Len(emitted) = 1
    /\ \E m \in AllMetrics(metrics) : m.GPU = "1" /\ ParseErr(m.Value)
    /\ Cardinality(DOMAIN gpuCounters) = 2

\* C20: no step of any cycle, successful or failed, removes a fingerprint
\* from the accumulator, also when the collector no longer reports it.
C20_AccumulatorKeysOnlyGrow ==
    [][DOMAIN gpuCounters \subseteq DOMAIN gpuCounters']_vars

C20_Witness ==
    /\ pc = "returned"
    /\ cycle = 2
    /\ err
    /\ devices = 1
    /\ Cardinality(DOMAIN gpuCounters) = 2
    /\ \E fp \in DOMAIN gpuCounters :
          \A c \in DOMAIN extended : \A i \in DOMAIN extended[c] :
              fp \notin Fingerprints([extended[c][i] EXCEPT !.Counter = UTIL])

\* C21: a cycle begins only at the select statement, where no cycle is in
\* progress; the effects of a cycle (collector calls, transforms, emissions,
\* accumulator updates, the send on `out` or the drop) happen only between its
\* beginning and Run's return to the select, and Run returns to the select
\* only through the send or the drop of that cycle.
C21_CyclesSequential ==
    [][/\ cycle' # cycle => (pc = "select" /\ pc' = "gpu" /\ cycle' = cycle + 1)
       /\ (\/ gpuCounters' # gpuCounters
           \/ log' # log
           \/ emitted' # emitted
           \/ sends' # sends
           \/ dropped' # dropped) => (pc # "select" \/ cycle' = cycle + 1)
       /\ (pc \notin {"select", "done"} /\ pc' = "select") =>
             \/ sends' = Append(sends, o) /\ ~err
             \/ sends' = Append(sends, "") /\ err
             \/ dropped' = dropped + 1 /\ ~err]_vars

C21_Witness ==
    /\ cycle = 2
    /\ pc = "accumulate"
    /\ startInfo.overran
    /\ DOMAIN gpuCounters # {}
    /\ Len(out) = 1
    /\ out[1] # ""
    /\ tC = 1

(***************************************************************************)
(* The PodWatcher's cache.                                                 *)
(***************************************************************************)
\* the namespace/name a call is about
EventKey(c) ==
    IF c.op = "GetObjectMeta" THEN c.namespace \o "/" \o c.name
    ELSE c.obj.ObjectMeta.Namespace \o "/" \o c.obj.ObjectMeta.Name

PodKeys == { ns \o "/" \o n : ns \in Namespaces, n \in PodNames }

\* what the events of h say about key: the metadata of the last create or
\* update when no delete followed it, nil otherwise
Reflected(h, key) ==
    LET about == { i \in 1..Len(h) :
                     h[i].call.op \in PwHandlers /\ EventKey(h[i].call) = key }
    IN  IF about = {} THEN NilMeta
        ELSE LET last == CHOOSE i \in about : \A j \in about : j <= i
             IN  IF h[last].call.op = "deletePod" THEN NilMeta
                 ELSE h[last].call.obj.ObjectMeta

\* C22: after any sequence of create, update and delete events a lookup of
\* namespace/name gives the metadata of the most recent create or update of
\* that key if no delete of it followed, and nil otherwise; events of one key
\* leave the other keys' results alone
C22_CacheReflectsEvents ==
    LET h == pwHist.applied
    IN  /\ DOMAIN pwM \subseteq PodKeys
        /\ \A key \in PodKeys : PwLookup(pwM, key) = Reflected(h, key)
        /\ \A i \in 1..Len(h) :
              h[i].call.op = "GetObjectMeta" =>
                 h[i].res = Reflected(SubSeq(h, 1, i - 1), EventKey(h[i].call))

C22_Witness ==
    LET h == pwHist.applied
    IN  /\ Len(h) = 3
        /\ h[1].call.op = "addPod" /\ EventKey(h[1].call) = "ns1/a"
        /\ h[2].call.op = "updatePod" /\ EventKey(h[2].call) = "ns1/a"
        /\ h[3].call = PwCallOf("GetObjectMeta", NoObject, "ns1", "a")
        /\ h[3].res = ObjectMeta("ns1", "a", "2")
        /\ PwLookup(pwM, "ns2/a") = NilMeta

\* one call applied to the map as a whole
ApplyCall(m, c) ==
    CASE c.op \in {"addPod", "updatePod"} ->
            PwStore(m, EventKey(c), c.obj.ObjectMeta)
      [] c.op = "deletePod" -> PwDelete(m, EventKey(c))
      [] OTHER -> m

\* the calls of h applied one after the other to the empty map
RECURSIVE Replay(_)
Replay(h) ==
    IF h = << >> THEN [k \in {} |-> NilMeta]
    ELSE ApplyCall(Replay(SubSeq(h, 1, Len(h) - 1)), h[Len(h)])

\* the goroutines between Lock and Unlock
InsideLock == { t \in PwThreads : pwT[t].pc \in {"access", "unlock"} }

\* C29: the map is read and written only by the goroutine holding the mutex,
\* at most one at a time; the map is the result of applying the calls one
\* after the other in the order of their lock acquisitions, and a lookup
\* gives what the calls that locked before it left, never a partial write
C29_MutexAtomic ==
    LET acq == pwHist.acquired
        h == pwHist.applied
    IN  /\ Cardinality(InsideLock) <= 1
        /\ \A t \in InsideLock : pwMu = t
        /\ InsideLock = {} => pwMu = NoHolder /\ pwM = Replay(acq)
        /\ \A i \in 1..Len(h) :
              /\ h[i].ticket = i
              /\ h[i].call = acq[i]
              /\ h[i].call.op = "GetObjectMeta" =>
                    h[i].res = PwLookup(Replay(SubSeq(acq, 1, i - 1)),
                                        EventKey(h[i].call))

C29_Witness ==
    /\ pwT["g1"].pc = "access" /\ pwT["g1"].call.op = "updatePod"
    /\ EventKey(pwT["g1"].call) = "ns1/a"
    /\ pwT["g2"].pc = "lock"
    /\ pwT["g2"].call = PwCallOf("GetObjectMeta", NoObject, "ns1", "a")
    /\ pwMu = "g1"
    /\ Len(pwHist.applied) = 1 /\ pwHist.applied[1].call.op = "addPod"
    /\ PwLookup(pwM, "ns1/a") = ObjectMeta("ns1", "a", "1")

(***************************************************************************)
(* The place of the emitter in a cycle.                                    *)
(***************************************************************************)
\* the entity group an event of the log belongs to
GroupOf(e) == IF e.ev = "transform" THEN "gpu" ELSE e.g

GroupIndex(g) == CHOOSE i \in DOMAIN Groups : Groups[i] = g

\* the groups handed to the emitter in the current cycle
EmittedGroups == { log[i].g : i \in { j \in DOMAIN log : log[j].ev = "emit" } }

\* the i-th event completes the collection of its group: a successful
\* collection, for GPU followed by every transform
CollectionDone(i) ==
    /\ log[i].ok
    /\ \/ log[i].ev = "collect" /\ log[i].g # "gpu"
       \/ log[i].ev = "collect" /\ log[i].g = "gpu" /\ transformations = << >>
       \/ /\ log[i].ev = "transform"
          /\ Len(SelectSeq(SubSeq(log, 1, i), LAMBDA e : e.ev = "transform"))
                = Len(transformations)

\* the lower-cased names of the derived counters
DerivedNames ==
    { ToLower(DerivedCounter(c).FieldName) : c \in Range(counters) \cup {AUX} }

\* the statement as claimed: in a cycle that failed at group G, nothing of G
\* or of a later group was handed to the emitter
C23_FailingGroupNotEmitted ==
    (pc = "returned" /\ err /\ otel) =>
        \A g \in EmittedGroups :
            GroupIndex(g) < GroupIndex(GroupOf(log[Len(log)]))

\* C23: with a meter configured, a group is handed to the emitter right after
\* its collection (for GPU after the last transform) and before it is
\* accumulated or rendered; no derived `_COUNTER` entry reaches the emitter;
\* a cycle that fails at the collection or a transform of group G has emitted
\* exactly the groups collected before G, and a cycle that fails at the GPU
\* rendering has emitted the GPU group
C23_EmitRightAfterCollection ==
    otel =>
       /\ \A i \in DOMAIN log :
             /\ CollectionDone(i) =>
                   \/ i = Len(log) /\ pc = "emit"
                   \/ i < Len(log) /\ log[i + 1].ev = "emit"
                                   /\ log[i + 1].g = GroupOf(log[i])
             /\ log[i].ev = "emit" => i > 1 /\ CollectionDone(i - 1)
             /\ log[i].ev \in {"accumulate", "render"} =>
                   \E j \in 1..(i - 1) : log[j].ev = "emit" /\ log[j].g = log[i].g
       /\ \A k \in DOMAIN emitted :
             /\ emitted[k].name \notin DerivedNames
             /\ emitted[k].g \in EmittedGroups
       /\ (pc = "returned" /\ err) =>
             LET last == log[Len(log)]
             IN  IF last.ev = "render"
                 THEN last.g = "gpu" /\ EmittedGroups = {"gpu"}
                 ELSE EmittedGroups =
                         { g \in collectors :
                             GroupIndex(g) < GroupIndex(GroupOf(last)) }

C23_Witness ==
    /\ otel /\ pc = "returned" /\ err
    /\ log[Len(log)] = Event("collect", "switch", FALSE, "")
    /\ EmittedGroups = {"gpu"}
    /\ \E k \in DOMAIN emitted : emitted[k].g = "gpu" /\ emitted[k].name = "util"

(***************************************************************************)
(* The rendered text, line by line.                                        *)
(***************************************************************************)
HelpLine(c) == "# HELP " \o c.FieldName \o " " \o c.Help

TypeLine(c) == "# TYPE " \o c.FieldName \o " " \o c.PromType

\* the sample line of Metric m of Counter c, the value as the Metric holds it
ExpectedSample(g, c, m) ==
    c.FieldName \o "{" \o FixedLabels(g, m) \o OptHostname(m)
      \o MapText(m.Labels) \o (IF g = "gpu" THEN MapText(m.Attributes) ELSE "")
      \o "} " \o Concat(m.Value)

\* the lines of one Counter: HELP, TYPE, then one line per Metric of its list
CounterLines(g, c, ms) ==
    << HelpLine(c), TypeLine(c) >>
       \o [i \in 1..Len(ms) |-> ExpectedSample(g, c, ms[i])]

RECURSIVE ExpectedLines(_, _, _)
ExpectedLines(g, cs, grouping) ==
    IF cs = << >> THEN << >>
    ELSE CounterLines(g, Head(cs), grouping[Head(cs)])
           \o ExpectedLines(g, Tail(cs), grouping)

RECURSIVE JoinLines(_)
JoinLines(ls) ==
    IF ls = << >> THEN "" ELSE Head(ls) \o "\n" \o JoinLines(Tail(ls))

\* the successful GPU renderings of the current cycle
GpuRenderings ==
    { i \in DOMAIN log : log[i].ev = "render" /\ log[i].g = "gpu" /\ log[i].ok }

\* C24: the text rendered for the GPU grouping is, Counter by Counter, one HELP
\* line and one TYPE line with the Counter's FieldName, Help and PromType,
\* then one sample line per Metric of the Counter's list with the Metric's
\* Value as it is; a derived Counter with an empty list keeps its HELP/TYPE
\* pair and has no sample line
C24_RenderedLines ==
    \A i \in GpuRenderings :
        /\ log[i].text =
              JoinLines(ExpectedLines("gpu", SortedCounters(extended), extended))
        /\ \A c \in DOMAIN extended :
              Len(CounterLines("gpu", c, extended[c])) = 2 + Len(extended[c])

C24_Witness ==
    /\ DOMAIN extended = {UTIL, DerivedCounter(UTIL)}
    /\ extended[DerivedCounter(UTIL)] = << >>
    /\ \E i \in GpuRenderings :
          log[i].text =
             "# HELP UTIL GPU utilization\n# TYPE UTIL gauge\n"
             \o "UTIL{gpu=\"0\",UUID=\"GPU-0\",pci_bus_id=\"00:00\","
             \o "device=\"nvidia0\",modelName=\"A100\",Hostname=\"h\","
             \o "cluster=\"c1\",zone=\"z1\"} N/A\n"
             \o "# HELP UTIL_COUNTER GPU utilization\n"
             \o "# TYPE UTIL_COUNTER counter\n"

(***************************************************************************)
(* The accumulator across failed cycles.                                   *)
(***************************************************************************)
\* C25: a cycle that returns an error leaves the accumulator as it was when the
\* cycle began
C25_FailedCycleKeepsAccumulator ==
    (pc = "returned" /\ err) => gpuCounters = accBefore

(***************************************************************************)
(* Pipelines built by either constructor.                                  *)
(***************************************************************************)
\* C26: whichever constructor built the pipeline, a cycle whose GPU collector
\* reports only parsable values does not panic
C26_ParsableCycleDoesNotPanic ==
    pc = "panic" => \E m \in AllMetrics(metrics) : ParseErr(m.Value)

(***************************************************************************)
(* Delivery of successful cycles.                                          *)
(***************************************************************************)
\* C27: whatever the capacity of `out`, the text of a successful cycle is
\* dropped only when earlier output is still waiting in `out`
C27_DroppedOnlyWhenUnconsumed ==
    [][dropped' = dropped + 1 => Len(out) > 0]_vars

(***************************************************************************)
(* The cleanup function returned by NewMetricsPipeline.                    *)
(***************************************************************************)
\* C28: once the cleanup returned by a failed NewMetricsPipeline has been
\* called, every collector that had been created is released, exactly once
C28_FailureCleanupReleasesCreated ==
    (nmp.pc = "cleaned" /\ nmp.result.err) =>
        \A g \in nmp.created : nmp.released[g] = 1

====
